---- MODULE Spec2Model ----
(***************************************************************************)
(* fimbl: the tracking store of src/database.rs.                           *)
(*                                                                         *)
(* The sled tree "fingerprints" maps a key (the UTF-8 bytes of a path) to  *)
(* the serialized current FingerprintRecord of that path.  Every public    *)
(* method of SystemDatabase is one action.  The sled substrate is taken to *)
(* be reliable (no DatabaseError).  Spec and SpecStored are the store under *)
(* arbitrary calls, the fingerprint being whatever the caller hands in;    *)
(* SpecCli is the command line program of src/main.rs over a small file    *)
(* system.                                                                 *)
(***************************************************************************)
EXTENDS Integers, Sequences, FiniteSets, TLC

VARIABLES
    tree,     \* the sled tree "fingerprints": key bytes -> record bytes
    clock,    \* the reading of SystemTime::now()
    call,     \* the most recent method call and its arguments
    result,   \* what that call returned
    pre,      \* the tree as that call found it
    writes,   \* the tree.insert calls that call made, in order
    fs,       \* the files on disk: what fingerprinting each would give
    run       \* the fimbl process: its command line and how far main() is

vars == <<tree, clock, call, result, pre, writes, fs, run>>

\* Largest reading of the clock.
MaxTime == 1

-----------------------------------------------------------------------------
\* Option<T>

None == <<>>

Some(x) == <<x>>

IsSome(o) == o # <<>>

Unwrap(o) == o[1]

-----------------------------------------------------------------------------
\* Paths are byte strings (std::path::Path on unix); Path::to_str succeeds
\* exactly on well-formed UTF-8.

IsCont(b) == b \in 128..191

RECURSIVE IsUtf8(_)
IsUtf8(s) ==
    IF s = <<>> THEN TRUE
    ELSE LET b == s[1]
             n == Len(s)
         IN  IF b < 128 THEN IsUtf8(Tail(s))
             ELSE IF b \in 194..223
                  THEN n >= 2 /\ IsCont(s[2]) /\ IsUtf8(SubSeq(s, 3, n))
             ELSE IF b \in 224..239
                  THEN /\ n >= 3
                       /\ IsCont(s[2])
                       /\ (b = 224 => s[2] >= 160)
                       /\ (b = 237 => s[2] <= 159)
                       /\ IsCont(s[3])
                       /\ IsUtf8(SubSeq(s, 4, n))
             ELSE IF b \in 240..244
                  THEN /\ n >= 4
                       /\ IsCont(s[2])
                       /\ (b = 240 => s[2] >= 144)
                       /\ (b = 244 => s[2] <= 143)
                       /\ IsCont(s[3])
                       /\ IsCont(s[4])
                       /\ IsUtf8(SubSeq(s, 5, n))
             ELSE FALSE

\* "/a"
PathA == <<47, 97>>

\* "/é" (a two-byte code point)
PathE == <<47, 195, 169>>

\* "/" followed by the byte 0xFF: not UTF-8
PathBad == <<47, 255>>

Paths == {PathA, PathE, PathBad}

\* A lossy conversion (to_string_lossy) never fails.
path_as_key_lossy(path) == Some(path)

path_as_key(path) == IF IsUtf8(path) THEN Some(path) ELSE None

path_from_key(key_bytes) == IF IsUtf8(key_bytes) THEN Some(key_bytes) ELSE None

-----------------------------------------------------------------------------
\* Fingerprint (src/fingerprint.rs); content_hash stands for the 32-byte
\* digest, the times for SystemTime values.

FpBase ==
    [content_hash |-> 1, symlink |-> FALSE, created |-> Some(0),
     modified |-> Some(0), unix_mode |-> Some(420), read_only |-> FALSE]

\* same file, other content
FpHash == [FpBase EXCEPT !.content_hash = 2]

\* same content, unix mode not available
FpMode == [FpBase EXCEPT !.unix_mode = None]

\* same content, touched later
FpModified == [FpBase EXCEPT !.modified = Some(1)]

Fingerprints == {FpBase, FpHash, FpMode, FpModified}

\* A comparison that leaves the two file times out.
FingerprintEq_ignore_times(a, b) ==
    /\ a.content_hash = b.content_hash
    /\ a.symlink = b.symlink
    /\ a.unix_mode = b.unix_mode
    /\ a.read_only = b.read_only

\* A comparison of the content hashes alone.
FingerprintEq_content_only(a, b) == a.content_hash = b.content_hash

\* #[derive(PartialEq)] on Fingerprint: field by field
FingerprintEq(a, b) ==
    /\ a.content_hash = b.content_hash
    /\ a.symlink = b.symlink
    /\ a.created = b.created
    /\ a.modified = b.modified
    /\ a.unix_mode = b.unix_mode
    /\ a.read_only = b.read_only

-----------------------------------------------------------------------------
\* FingerprintRecord and its serialization

AssertRecord(t, fp) == [tag |-> "Assert", time |-> t, fingerprint |-> fp]

RetractRecord(t) == [tag |-> "Retract", time |-> t]

\* An Assert stamped with UNIX_EPOCH instead of the current time.
record_assert_epoch(now, fp) == AssertRecord(0, fp)

\* FingerprintRecord::assert / ::retract, now being SystemTime::now()
record_assert(now, fp) == AssertRecord(now, fp)

record_retract(now) == RetractRecord(now)

\* FingerprintRecord::fingerprint
record_fingerprint(record) ==
    IF record.tag = "Assert" THEN Some(record.fingerprint) ELSE None

\* A serialization that leaves the unix mode out (writes nil for it).
to_vec_no_mode(record) ==
    IF record.tag = "Assert"
    THEN LET fp == record.fingerprint
         IN  <<"Assert", record.time,
               <<fp.content_hash, fp.symlink, fp.created, fp.modified,
                 None, fp.read_only>> >>
    ELSE <<"Retract", record.time>>

\* The MessagePack value of a record: the variant tag, then its fields, a
\* Fingerprint being the array of its six fields in declaration order.
to_vec(record) ==
    IF record.tag = "Assert"
    THEN LET fp == record.fingerprint
         IN  <<"Assert", record.time,
               <<fp.content_hash, fp.symlink, fp.created, fp.modified,
                 fp.unix_mode, fp.read_only>> >>
    ELSE <<"Retract", record.time>>

DecodeError == [ok |-> FALSE, record |-> None]

\* Parses what to_vec writes; anything else is a decode error.
from_slice(input) ==
    IF Len(input) = 3 /\ input[1] = "Assert" /\ Len(input[3]) = 6
    THEN LET f == input[3]
         IN  [ok |-> TRUE,
              record |-> Some(AssertRecord(input[2],
                  [content_hash |-> f[1], symlink |-> f[2], created |-> f[3],
                   modified |-> f[4], unix_mode |-> f[5], read_only |-> f[6]]))]
    ELSE IF Len(input) = 2 /\ input[1] = "Retract"
    THEN [ok |-> TRUE, record |-> Some(RetractRecord(input[2]))]
    ELSE DecodeError

-----------------------------------------------------------------------------
\* ReportItem and Result<Vec<ReportItem>, FimblError>

ReportItem(kind, path) == [kind |-> kind, path |-> path]

Ok(reports) == [status |-> "Ok", reports |-> reports, listing |-> <<>>]

OkListing(listing) == [status |-> "Ok", reports |-> <<>>, listing |-> listing]

Err(e) == [status |-> e, reports |-> <<>>, listing |-> <<>>]

\* sled: Tree::get, Tree::contains_key, Tree::insert
tree_get(t, key) == IF key \in DOMAIN t THEN Some(t[key]) ELSE None

tree_contains_key(t, key) == key \in DOMAIN t

\* An insert that leaves the new item alone in the tree.
tree_insert_clear(t, key, value) == [k \in {key} |-> value]

tree_insert(t, key, value) ==
    [k \in DOMAIN t \cup {key} |-> IF k = key THEN value ELSE t[k]]

\* What a method does: the tree it leaves, the inserts it made, its result.
Outcome(t, w, res) == [tree |-> t, writes |-> w, result |-> res]

Write(key, value) == [key |-> key, value |-> value]

-----------------------------------------------------------------------------
\* store_new_file, the two tree.insert arms: a fresh Assert under the key
store_new_file_insert(t, now, path_key, fingerprint) ==
    LET value == to_vec(record_assert(now, fingerprint))
    IN  Outcome(tree_insert(t, path_key, value),
                <<Write(path_key, value)>>, Ok(<<>>))

\* Strict mode reporting the tracked file and overwriting its record anyway.
store_new_file_existing_overwrite(t, now, path, path_key, record, fingerprint, tolerate_existing) ==
    LET stored == record_fingerprint(record)
    IN  IF IsSome(stored) /\ tolerate_existing
        THEN IF ~FingerprintEq(Unwrap(stored), fingerprint)
             THEN Outcome(t, <<>>, Ok(<<ReportItem("FileContentChanged", path)>>))
             ELSE Outcome(t, <<>>, Ok(<<>>))
        ELSE IF IsSome(stored)
        THEN LET value == to_vec(record_assert(now, fingerprint))
             IN  Outcome(tree_insert(t, path_key, value),
                         <<Write(path_key, value)>>,
                         Ok(<<ReportItem("FileAlreadyTracked", path)>>))
        ELSE store_new_file_insert(t, now, path_key, fingerprint)

\* Tolerant mode with the comparison inverted (== for !=).
store_new_file_existing_inverted(t, now, path, path_key, record, fingerprint, tolerate_existing) ==
    LET stored == record_fingerprint(record)
    IN  IF IsSome(stored) /\ tolerate_existing
        THEN IF FingerprintEq(Unwrap(stored), fingerprint)
             THEN Outcome(t, <<>>, Ok(<<ReportItem("FileContentChanged", path)>>))
             ELSE Outcome(t, <<>>, Ok(<<>>))
        ELSE IF IsSome(stored)
        THEN Outcome(t, <<>>, Ok(<<ReportItem("FileAlreadyTracked", path)>>))
        ELSE store_new_file_insert(t, now, path_key, fingerprint)

\* Strict mode accepting in silence a file whose fingerprint matches.
store_new_file_existing_lenient(t, now, path, path_key, record, fingerprint, tolerate_existing) ==
    LET stored == record_fingerprint(record)
    IN  IF IsSome(stored)
        THEN IF ~FingerprintEq(Unwrap(stored), fingerprint)
             THEN Outcome(t, <<>>,
                      Ok(<<ReportItem(IF tolerate_existing
                                      THEN "FileContentChanged"
                                      ELSE "FileAlreadyTracked", path)>>))
             ELSE Outcome(t, <<>>, Ok(<<>>))
        ELSE store_new_file_insert(t, now, path_key, fingerprint)

\* store_new_file, the match on record.fingerprint() of a decoded record
store_new_file_existing(t, now, path, path_key, record, fingerprint, tolerate_existing) ==
    LET stored == record_fingerprint(record)
    IN  IF IsSome(stored) /\ tolerate_existing
        THEN IF ~FingerprintEq(Unwrap(stored), fingerprint)
             THEN Outcome(t, <<>>, Ok(<<ReportItem("FileContentChanged", path)>>))
             ELSE Outcome(t, <<>>, Ok(<<>>))
        ELSE IF IsSome(stored)
        THEN Outcome(t, <<>>, Ok(<<ReportItem("FileAlreadyTracked", path)>>))
        ELSE store_new_file_insert(t, now, path_key, fingerprint)

\* SystemDatabase::store_new_file
store_new_file(t, now, path, fingerprint, tolerate_existing) ==
    LET key == path_as_key(path)
    IN  IF IsSome(key)
        THEN LET path_key == Unwrap(key)
                 record_bytes == tree_get(t, path_key)
             IN  IF IsSome(record_bytes)
                 THEN LET decoded == from_slice(Unwrap(record_bytes))
                      IN  IF ~decoded.ok
                          THEN Outcome(t, <<>>,
                                       Err("FingerprintDeserializationError"))
                          ELSE store_new_file_existing(t, now, path, path_key,
                                   Unwrap(decoded.record), fingerprint,
                                   tolerate_existing)
                 ELSE store_new_file_insert(t, now, path_key, fingerprint)
        ELSE Outcome(t, <<>>, Ok(<<ReportItem("FileNameNotSupported", path)>>))

\* An update that writes whether or not the key exists, whatever the flag.
update_existing_file_always(t, now, path, fingerprint, tolerate_untracked) ==
    LET key == path_as_key(path)
    IN  IF IsSome(key)
        THEN LET value == to_vec(record_assert(now, fingerprint))
             IN  Outcome(tree_insert(t, Unwrap(key), value),
                         <<Write(Unwrap(key), value)>>, Ok(<<>>))
        ELSE Outcome(t, <<>>, Ok(<<ReportItem("FileNameNotSupported", path)>>))

\* An update that writes only when the key exists, whatever the flag.
update_existing_file_strict(t, now, path, fingerprint, tolerate_untracked) ==
    LET key == path_as_key(path)
    IN  IF IsSome(key)
        THEN LET path_key == Unwrap(key)
                 exists == tree_contains_key(t, path_key)
             IN  IF exists
                 THEN LET value == to_vec(record_assert(now, fingerprint))
                      IN  Outcome(tree_insert(t, path_key, value),
                                  <<Write(path_key, value)>>, Ok(<<>>))
                 ELSE Outcome(t, <<>>, Ok(<<ReportItem("FileNotTracked", path)>>))
        ELSE Outcome(t, <<>>, Ok(<<ReportItem("FileNameNotSupported", path)>>))

\* An update that inserts before it looks whether the key existed, and then
\* reports the untracked path all the same.
update_existing_file_insert_first(t, now, path, fingerprint, tolerate_untracked) ==
    LET key == path_as_key(path)
    IN  IF IsSome(key)
        THEN LET path_key == Unwrap(key)
                 exists == tree_contains_key(t, path_key)
                 value == to_vec(record_assert(now, fingerprint))
             IN  Outcome(tree_insert(t, path_key, value),
                         <<Write(path_key, value)>>,
                         IF exists \/ tolerate_untracked
                         THEN Ok(<<>>)
                         ELSE Ok(<<ReportItem("FileNotTracked", path)>>))
        ELSE Outcome(t, <<>>, Ok(<<ReportItem("FileNameNotSupported", path)>>))

\* SystemDatabase::update_existing_file
update_existing_file(t, now, path, fingerprint, tolerate_untracked) ==
    LET key == path_as_key(path)
    IN  IF IsSome(key)
        THEN LET path_key == Unwrap(key)
                 exists == tree_contains_key(t, path_key)
             IN  IF exists \/ tolerate_untracked
                 THEN LET value == to_vec(record_assert(now, fingerprint))
                      IN  Outcome(tree_insert(t, path_key, value),
                                  <<Write(path_key, value)>>, Ok(<<>>))
                 ELSE Outcome(t, <<>>, Ok(<<ReportItem("FileNotTracked", path)>>))
        ELSE Outcome(t, <<>>, Ok(<<ReportItem("FileNameNotSupported", path)>>))

\* A removal that deletes the key (Tree::remove) instead of retracting.
remove_existing_file_delete(t, now, path, tolerate_untracked) ==
    LET key == path_as_key(path)
    IN  IF IsSome(key)
        THEN LET path_key == Unwrap(key)
                 exists == tree_contains_key(t, path_key)
             IN  IF exists \/ tolerate_untracked
                 THEN Outcome([k \in DOMAIN t \ {path_key} |-> t[k]], <<>>,
                              Ok(<<>>))
                 ELSE Outcome(t, <<>>, Ok(<<ReportItem("FileNotTracked", path)>>))
        ELSE Outcome(t, <<>>, Ok(<<ReportItem("FileNameNotSupported", path)>>))

\* SystemDatabase::remove_existing_file
remove_existing_file(t, now, path, tolerate_untracked) ==
    LET key == path_as_key(path)
    IN  IF IsSome(key)
        THEN LET path_key == Unwrap(key)
                 exists == tree_contains_key(t, path_key)
             IN  IF exists \/ tolerate_untracked
                 THEN LET value == to_vec(record_retract(now))
                      IN  Outcome(tree_insert(t, path_key, value),
                                  <<Write(path_key, value)>>, Ok(<<>>))
                 ELSE Outcome(t, <<>>, Ok(<<ReportItem("FileNotTracked", path)>>))
        ELSE Outcome(t, <<>>, Ok(<<ReportItem("FileNameNotSupported", path)>>))

\* A verify that passes over a retracted record in silence.
verify_record_retract_silent(t, path, record, fingerprint) ==
    LET stored == record_fingerprint(record)
    IN  IF IsSome(stored) /\ ~FingerprintEq(Unwrap(stored), fingerprint)
        THEN Outcome(t, <<>>, Ok(<<ReportItem("FileContentChanged", path)>>))
        ELSE Outcome(t, <<>>, Ok(<<>>))

\* A verify that reports a changed file and takes the new fingerprint in.
verify_record_accepting(t, path, record, fingerprint) ==
    LET stored == record_fingerprint(record)
    IN  IF IsSome(stored)
        THEN IF ~FingerprintEq(Unwrap(stored), fingerprint)
             THEN LET value == to_vec(AssertRecord(record.time, fingerprint))
                  IN  Outcome(tree_insert(t, path, value),
                              <<Write(path, value)>>,
                              Ok(<<ReportItem("FileContentChanged", path)>>))
             ELSE Outcome(t, <<>>, Ok(<<>>))
        ELSE Outcome(t, <<>>, Ok(<<ReportItem("FileNotTracked", path)>>))

\* verify, the match on record.fingerprint() of a decoded record
verify_record(t, path, record, fingerprint) ==
    LET stored == record_fingerprint(record)
    IN  IF IsSome(stored)
        THEN IF ~FingerprintEq(Unwrap(stored), fingerprint)
             THEN Outcome(t, <<>>, Ok(<<ReportItem("FileContentChanged", path)>>))
             ELSE Outcome(t, <<>>, Ok(<<>>))
        ELSE Outcome(t, <<>>, Ok(<<ReportItem("FileNotTracked", path)>>))

\* SystemDatabase::verify
verify(t, path, fingerprint) ==
    LET key == path_as_key(path)
    IN  IF IsSome(key)
        THEN LET record_bytes == tree_get(t, Unwrap(key))
             IN  IF IsSome(record_bytes)
                 THEN LET decoded == from_slice(Unwrap(record_bytes))
                      IN  IF ~decoded.ok
                          THEN Outcome(t, <<>>,
                                       Err("FingerprintDeserializationError"))
                          ELSE verify_record(t, path, Unwrap(decoded.record),
                                             fingerprint)
                 ELSE Outcome(t, <<>>, Ok(<<ReportItem("FileNotTracked", path)>>))
        ELSE Outcome(t, <<>>, Ok(<<ReportItem("FileNameNotSupported", path)>>))

\* sled iterates a tree in the lexicographic order of the key bytes.
RECURSIVE BytesLess(_, _)
BytesLess(a, b) ==
    IF a = <<>> THEN b # <<>>
    ELSE IF b = <<>> THEN FALSE
    ELSE IF a[1] # b[1] THEN a[1] < b[1]
    ELSE BytesLess(Tail(a), Tail(b))

RECURSIVE tree_iter(_, _)
tree_iter(t, keys) ==
    IF keys = {} THEN <<>>
    ELSE LET k == CHOOSE x \in keys : \A y \in keys \ {x} : BytesLess(x, y)
         IN  <<Write(k, t[k])>> \o tree_iter(t, keys \ {k})

\* A loop that ends at the first retracted item (break for continue).
RECURSIVE list_items_break(_, _)
list_items_break(items, fingerprints) ==
    IF items = <<>> THEN OkListing(fingerprints)
    ELSE LET k == items[1].key
             path == path_from_key(k)
             decoded == from_slice(items[1].value)
         IN  IF ~IsSome(path) THEN Err("panic")
             ELSE IF ~decoded.ok THEN Err("FingerprintDeserializationError")
             ELSE LET record == Unwrap(decoded.record)
                  IN  IF record.tag = "Assert"
                      THEN list_items_break(Tail(items),
                               Append(fingerprints,
                                      <<Unwrap(path), record.fingerprint>>))
                      ELSE OkListing(fingerprints)

\* A loop that passes over an item that does not decode (if let Ok).
RECURSIVE list_items_skip(_, _)
list_items_skip(items, fingerprints) ==
    IF items = <<>> THEN OkListing(fingerprints)
    ELSE LET k == items[1].key
             path == path_from_key(k)
             decoded == from_slice(items[1].value)
         IN  IF ~IsSome(path) THEN Err("panic")
             ELSE IF ~decoded.ok THEN list_items_skip(Tail(items), fingerprints)
             ELSE LET record == Unwrap(decoded.record)
                  IN  list_items_skip(Tail(items),
                          IF record.tag = "Assert"
                          THEN Append(fingerprints,
                                      <<Unwrap(path), record.fingerprint>>)
                          ELSE fingerprints)

\* A loop that lists the retracted paths too.
RECURSIVE list_items_retracted(_, _)
list_items_retracted(items, fingerprints) ==
    IF items = <<>> THEN OkListing(fingerprints)
    ELSE LET k == items[1].key
             path == path_from_key(k)
             decoded == from_slice(items[1].value)
         IN  IF ~IsSome(path) THEN Err("panic")
             ELSE IF ~decoded.ok THEN Err("FingerprintDeserializationError")
             ELSE LET record == Unwrap(decoded.record)
                  IN  list_items_retracted(Tail(items),
                          Append(fingerprints,
                                 <<Unwrap(path),
                                   IF record.tag = "Assert"
                                   THEN record.fingerprint ELSE FpBase>>))

\* SystemDatabase::list_fingerprint_assertions: the loop over the items,
\* stopping at the first record that does not decode.
RECURSIVE list_items(_, _)
list_items(items, fingerprints) ==
    IF items = <<>> THEN OkListing(fingerprints)
    ELSE LET k == items[1].key
             path == path_from_key(k)
             decoded == from_slice(items[1].value)
         IN  IF ~IsSome(path) THEN Err("panic")
             ELSE IF ~decoded.ok THEN Err("FingerprintDeserializationError")
             ELSE LET record == Unwrap(decoded.record)
                  IN  list_items(Tail(items),
                          IF record.tag = "Assert"
                          THEN Append(fingerprints,
                                      <<Unwrap(path), record.fingerprint>>)
                          ELSE fingerprints)

list_fingerprint_assertions(t) ==
    Outcome(t, <<>>, list_items(tree_iter(t, DOMAIN t), <<>>))

-----------------------------------------------------------------------------
\* The file system main.rs looks at.  /a and /e are regular files, /d is a
\* directory, /s is a symlink to /a and /l a symlink to /d.

\* "/d"
PathDir == <<47, 100>>

\* "/s"
PathLinkA == <<47, 115>>

\* "/l"
PathLinkDir == <<47, 108>>

\* Most files on a command line.
MaxFiles == 2

\* What a command line may name.
Inputs == {PathA, PathE, PathDir, PathLinkA, PathLinkDir}

FileLists == UNION {[1..n -> Inputs] : n \in 0..MaxFiles}

\* A regular file is there with some content, there but not readable, or gone.
FileOnDisk(fingerprint) == [state |-> "file", fingerprint |-> fingerprint]

Unreadable == [state |-> "unreadable", fingerprint |-> FpBase]

Missing == [state |-> "missing", fingerprint |-> FpBase]

FileStates == {FileOnDisk(FpBase), FileOnDisk(FpHash), Unreadable, Missing}

InitialFiles == [p \in {PathA, PathE} |-> FileOnDisk(FpBase)]

\* Path::is_symlink and fs::read_link
is_symlink(path) == path \in {PathLinkA, PathLinkDir}

read_link(path) == IF path = PathLinkA THEN PathA ELSE PathDir

\* symlink_reference_chain: the links followed and the final target
RECURSIVE symlink_reference_chain(_)
symlink_reference_chain(path) ==
    IF is_symlink(path)
    THEN <<path>> \o symlink_reference_chain(read_link(path))
    ELSE <<path>>

Last(chain) == chain[Len(chain)]

\* Path::is_dir
is_dir(path) == Last(symlink_reference_chain(path)) = PathDir

\* fs::canonicalize: the target behind every link; an error when it is gone
canonicalize(files, path) ==
    LET target == Last(symlink_reference_chain(path))
    IN  IF target \in DOMAIN files /\ files[target] = Missing
        THEN None
        ELSE Some(target)

\* Fingerprint::from_file: an error for a directory and for a file that
\* cannot be opened or read
from_file(files, path) ==
    IF path \in DOMAIN files /\ files[path].state = "file"
    THEN Some(files[path].fingerprint)
    ELSE None

\* A list in which a directory stays among the files.
RECURSIVE preprocess_file_list_no_filter(_)
preprocess_file_list_no_filter(files) ==
    IF files = <<>> THEN [files |-> <<>>, dirs |-> <<>>]
    ELSE LET chain == symlink_reference_chain(Head(files))
             rest == preprocess_file_list_no_filter(Tail(files))
         IN  [files |-> chain \o rest.files, dirs |-> rest.dirs]

\* preprocess_file_list: every chain goes whole to the directories or to
\* the files
RECURSIVE preprocess_file_list(_)
preprocess_file_list(files) ==
    IF files = <<>> THEN [files |-> <<>>, dirs |-> <<>>]
    ELSE LET chain == symlink_reference_chain(Head(files))
             rest == preprocess_file_list(Tail(files))
         IN  IF is_dir(Last(chain))
             THEN [files |-> rest.files, dirs |-> chain \o rest.dirs]
             ELSE [files |-> chain \o rest.files, dirs |-> rest.dirs]

\* reject_directories
reject_directories(dirs) ==
    [i \in 1..Len(dirs) |-> ReportItem("FileIsDirectory", dirs[i])]

-----------------------------------------------------------------------------
\* The process.  input is the command line; files is what the loop of the
\* command has still to do and reports the Vec<ReportItem> it is collecting;
\* calls and written record the store methods called and their inserts, tree0
\* the tree at the start; sink is what report() printed, printed what list()
\* printed, exit the exit status.

\* main returns
ExitSuccess == 0

\* the status of a process that panicked
ExitPanic == 101

Idle ==
    [pc |-> "idle", cmd |-> "none", tolerant |-> FALSE, input |-> <<>>,
     files |-> <<>>, reports |-> <<>>, calls |-> <<>>, written |-> <<>>,
     tree0 |-> <<>>, sink |-> <<>>, printed |-> <<>>, exit |-> ExitSuccess,
     fatal |-> "none"]

\* add, remove, verify, accept: preprocess_file_list, then reject_directories
begin_batch(cmd, tolerant, files, t) ==
    LET lists == preprocess_file_list(files)
    IN  [Idle EXCEPT !.pc = "loop", !.cmd = cmd, !.tolerant = tolerant,
                     !.input = files, !.files = lists.files,
                     !.reports = reject_directories(lists.dirs), !.tree0 = t]

\* The process dies: a panic!, or the unwrap in main of an Err.
die(r, fatal) == [r EXCEPT !.pc = "exited", !.exit = ExitPanic, !.fatal = fatal]

\* A loop that goes on to the next file when one cannot be fingerprinted.
fingerprint_failed_skip(r) == [r EXCEPT !.files = Tail(@)]

\* add, verify, verify_all, accept: the Err arm of Fingerprint::from_file
fingerprint_failed(r) == die(r, "Fingerprint::from_file")

\* verify_all and list: the paths of the listing, the fingerprints dropped
listed_files(listing) == [i \in 1..Len(listing) |-> listing[i][1]]

\* The store method each command calls for a file.
store_method(cmd) ==
    CASE cmd = "add" -> "store_new_file"
      [] cmd = "remove" -> "remove_existing_file"
      [] cmd = "accept" -> "update_existing_file"
      [] OTHER -> "verify"

store_call(op, t, now, file, fingerprint, tolerant) ==
    CASE op = "store_new_file" ->
             store_new_file(t, now, file, fingerprint, tolerant)
      [] op = "update_existing_file" ->
             update_existing_file(t, now, file, fingerprint, tolerant)
      [] op = "remove_existing_file" ->
             remove_existing_file(t, now, file, tolerant)
      [] OTHER -> verify(t, file, fingerprint)

-----------------------------------------------------------------------------
\* The calls a client makes

Call(op, path, fingerprint, flag, now) ==
    [op |-> op, path |-> path, fingerprint |-> fingerprint, flag |-> flag,
     now |-> now]

NoCall == Call("none", <<>>, FpBase, FALSE, 0)

Init ==
    /\ tree = <<>>
    /\ clock = 0
    /\ call = NoCall
    /\ result = Ok(<<>>)
    /\ pre = <<>>
    /\ writes = <<>>
    /\ fs = InitialFiles
    /\ run = Idle

\* A call returns: the tree and the record of the last call move on.
ReturnCall(c, outcome) ==
    /\ tree' = outcome.tree
    /\ result' = outcome.result
    /\ writes' = outcome.writes
    /\ pre' = tree
    /\ call' = c

\* A call made on the store directly.
Return(c, outcome) ==
    /\ ReturnCall(c, outcome)
    /\ UNCHANGED <<clock, fs, run>>

StoreNewFile ==
    \E path \in Paths, fingerprint \in Fingerprints, tolerate_existing \in BOOLEAN :
        Return(Call("store_new_file", path, fingerprint, tolerate_existing, clock),
               store_new_file(tree, clock, path, fingerprint, tolerate_existing))

UpdateExistingFile ==
    \E path \in Paths, fingerprint \in Fingerprints, tolerate_untracked \in BOOLEAN :
        Return(Call("update_existing_file", path, fingerprint, tolerate_untracked, clock),
               update_existing_file(tree, clock, path, fingerprint, tolerate_untracked))

RemoveExistingFile ==
    \E path \in Paths, tolerate_untracked \in BOOLEAN :
        Return(Call("remove_existing_file", path, FpBase, tolerate_untracked, clock),
               remove_existing_file(tree, clock, path, tolerate_untracked))

Verify ==
    \E path \in Paths, fingerprint \in Fingerprints :
        Return(Call("verify", path, fingerprint, FALSE, clock),
               verify(tree, path, fingerprint))

ListFingerprintAssertions ==
    Return(Call("list_fingerprint_assertions", <<>>, FpBase, FALSE, clock),
           list_fingerprint_assertions(tree))

\* Time passes between calls.
Tick ==
    /\ clock < MaxTime
    /\ clock' = clock + 1
    /\ UNCHANGED <<tree, call, result, pre, writes, fs, run>>

Next ==
    \/ StoreNewFile
    \/ UpdateExistingFile
    \/ RemoveExistingFile
    \/ Verify
    \/ ListFingerprintAssertions
    \/ Tick

Spec == Init /\ [][Next]_vars

-----------------------------------------------------------------------------
\* src/main.rs: one process at a time, one loop iteration per step.

StoreUnchanged == UNCHANGED <<tree, call, result, pre, writes>>

\* main, for Add, Remove, Verify and Accept, up to the loop of the command
Main ==
    /\ run.pc = "idle"
    /\ \E cmd \in {"add", "remove", "verify", "accept"}, tolerant \in BOOLEAN,
          files \in FileLists :
           run' = begin_batch(cmd, tolerant, files, tree)
    /\ StoreUnchanged
    /\ UNCHANGED <<clock, fs>>

\* main, for VerifyAll and List, up to the loop over the listing
MainListing ==
    /\ run.pc = "idle"
    /\ \E cmd \in {"verify_all", "list"}, tolerant \in BOOLEAN :
           LET c == Call("list_fingerprint_assertions", <<>>, FpBase, FALSE, clock)
               o == list_fingerprint_assertions(tree)
               r == [Idle EXCEPT !.pc = "loop", !.cmd = cmd,
                                 !.tolerant = tolerant, !.tree0 = tree,
                                 !.calls = <<c>>]
           IN  /\ ReturnCall(c, o)
               /\ run' = IF o.result.status # "Ok"
                         THEN die(r, o.result.status)
                         ELSE IF cmd = "list"
                         THEN [r EXCEPT !.printed =
                                  listed_files(o.result.listing)]
                         ELSE [r EXCEPT !.files =
                                  listed_files(o.result.listing)]
    /\ UNCHANGED <<clock, fs>>

\* One iteration of the loop of add, remove, verify, verify_all or accept.
LoopFile(cmd) ==
    /\ run.pc = "loop"
    /\ run.cmd = cmd
    /\ run.files # <<>>
    /\ UNCHANGED <<clock, fs>>
    /\ LET canonical == IF cmd = "verify_all"
                        THEN Some(Head(run.files))
                        ELSE canonicalize(fs, Head(run.files))
       IN  IF ~IsSome(canonical)
           THEN run' = die(run, "fs::canonicalize") /\ StoreUnchanged
           ELSE LET file == Unwrap(canonical)
                    fingerprint == IF cmd = "remove"
                                   THEN Some(FpBase)
                                   ELSE from_file(fs, file)
                IN  IF ~IsSome(fingerprint)
                    THEN run' = fingerprint_failed(run) /\ StoreUnchanged
                    ELSE LET c == Call(store_method(cmd), file,
                                       Unwrap(fingerprint), run.tolerant, clock)
                             o == store_call(store_method(cmd), tree, clock,
                                             file, Unwrap(fingerprint),
                                             run.tolerant)
                             r == [run EXCEPT !.calls = Append(@, c),
                                              !.written = @ \o o.writes]
                         IN  /\ ReturnCall(c, o)
                             /\ run' = IF o.result.status # "Ok"
                                       THEN die(r, o.result.status)
                                       ELSE [r EXCEPT
                                                !.files = Tail(@),
                                                !.reports = @ \o o.result.reports]

AddFile == LoopFile("add")

RemoveFile == LoopFile("remove")

VerifyFile == LoopFile("verify")

VerifyAllFile == LoopFile("verify_all")

AcceptFile == LoopFile("accept")

\* report(reports.unwrap()), and main returns
Report ==
    /\ run.pc = "loop"
    /\ run.files = <<>>
    /\ run' = [run EXCEPT !.pc = "exited", !.sink = run.reports,
                          !.exit = ExitSuccess]
    /\ StoreUnchanged
    /\ UNCHANGED <<clock, fs>>

\* The process is gone; the next one has made no call yet.
Exit ==
    /\ run.pc = "exited"
    /\ run' = Idle
    /\ call' = NoCall
    /\ result' = Ok(<<>>)
    /\ pre' = <<>>
    /\ writes' = <<>>
    /\ UNCHANGED <<tree, clock, fs>>

\* Between two runs a file is written, made unreadable, deleted or restored.
Touch ==
    /\ run.pc = "idle"
    /\ \E p \in DOMAIN fs, state \in FileStates : fs' = [fs EXCEPT ![p] = state]
    /\ StoreUnchanged
    /\ UNCHANGED <<clock, run>>

NextCli ==
    \/ Main
    \/ MainListing
    \/ AddFile
    \/ RemoveFile
    \/ VerifyFile
    \/ VerifyAllFile
    \/ AcceptFile
    \/ Report
    \/ Exit
    \/ Touch

SpecCli == Init /\ [][NextCli]_vars

-----------------------------------------------------------------------------
\* SystemDatabase::open on a directory that exists: sled::open hands back
\* whatever the tree holds, records of an earlier run or bytes that are not
\* a record at all.

\* an Assert cut short after its timestamp
Garbage == <<"Assert", 0>>

StoredValues == {Garbage, to_vec(AssertRecord(0, FpBase))}

StoredTrees ==
    UNION {[keys -> StoredValues] : keys \in SUBSET {PathA, PathE}}

InitStored ==
    /\ tree \in StoredTrees
    /\ clock = 0
    /\ call = NoCall
    /\ result = Ok(<<>>)
    /\ pre = <<>>
    /\ writes = <<>>
    /\ fs = InitialFiles
    /\ run = Idle

SpecStored == InitStored /\ [][Next]_vars

-----------------------------------------------------------------------------
\* What the properties below read off a tree: a path is supported when its
\* bytes are UTF-8, and its key is then those bytes.

Supported(path) == IsUtf8(path)

HasRecord(t, path) == path \in DOMAIN t

RecordIn(t, path) == Unwrap(from_slice(t[path]).record)

IsAssert(t, path) ==
    /\ HasRecord(t, path)
    /\ from_slice(t[path]).ok
    /\ RecordIn(t, path).tag = "Assert"

IsRetract(t, path) ==
    /\ HasRecord(t, path)
    /\ from_slice(t[path]).ok
    /\ RecordIn(t, path).tag = "Retract"

StoredFingerprint(t, path) == RecordIn(t, path).fingerprint

\* The call completed and returned exactly these events.
Returned(reports) == result.status = "Ok" /\ result.reports = reports

NoEvent == <<>>

OneEvent(kind, path) == <<[kind |-> kind, path |-> path]>>

FileOps ==
    {"store_new_file", "update_existing_file", "remove_existing_file", "verify"}

-----------------------------------------------------------------------------
\* C1: verify on a supported path returns one "not tracked" event when the
\* path has no record or its record is a Retract, one "content changed" event
\* when its record is an Assert whose fingerprint differs from the supplied
\* one in any field, and no event when the two are equal.
C1_VerifyReports ==
    (call.op = "verify" /\ Supported(call.path)) =>
        /\ ~HasRecord(pre, call.path) =>
               Returned(OneEvent("FileNotTracked", call.path))
        /\ IsRetract(pre, call.path) =>
               Returned(OneEvent("FileNotTracked", call.path))
        /\ (IsAssert(pre, call.path)
              /\ StoredFingerprint(pre, call.path) # call.fingerprint) =>
               Returned(OneEvent("FileContentChanged", call.path))
        /\ (IsAssert(pre, call.path)
              /\ StoredFingerprint(pre, call.path) = call.fingerprint) =>
               Returned(NoEvent)

\* verify has found a record with the same content hash and another unix mode
C1_Witness ==
    /\ call.op = "verify"
    /\ IsAssert(pre, call.path)
    /\ StoredFingerprint(pre, call.path).content_hash = call.fingerprint.content_hash
    /\ StoredFingerprint(pre, call.path).unix_mode # call.fingerprint.unix_mode
    /\ Returned(OneEvent("FileContentChanged", call.path))

\* C2: store_new_file on a path whose record is an Assert writes nothing and
\* leaves the record as it was; tolerant, it returns "content changed" iff
\* the fingerprints differ; strict, it returns "already tracked" always.
C2_AddOnAssertNoWrite ==
    (call.op = "store_new_file" /\ Supported(call.path)
       /\ IsAssert(pre, call.path)) =>
        /\ writes = <<>>
        /\ tree = pre
        /\ Returned(IF ~call.flag
                    THEN OneEvent("FileAlreadyTracked", call.path)
                    ELSE IF StoredFingerprint(pre, call.path) # call.fingerprint
                    THEN OneEvent("FileContentChanged", call.path)
                    ELSE NoEvent)

\* a strict add of a later, different fingerprint found an Assert
C2_Witness ==
    /\ call.op = "store_new_file"
    /\ ~call.flag
    /\ IsAssert(pre, call.path)
    /\ StoredFingerprint(pre, call.path) # call.fingerprint
    /\ RecordIn(pre, call.path).time < call.now
    /\ Returned(OneEvent("FileAlreadyTracked", call.path))
    /\ tree = pre

\* C3: store_new_file on a supported path with no record, or with a Retract,
\* writes Assert(now, fp) and returns no event, strict or tolerant.
C3_AddInserts ==
    (call.op = "store_new_file" /\ Supported(call.path)
       /\ (~HasRecord(pre, call.path) \/ IsRetract(pre, call.path))) =>
        /\ Returned(NoEvent)
        /\ IsAssert(tree, call.path)
        /\ RecordIn(tree, call.path).time = call.now
        /\ StoredFingerprint(tree, call.path) = call.fingerprint
        /\ Len(writes) = 1
        /\ writes[1].key = call.path

\* a strict add re-tracked a retracted path at a later time
C3_Witness ==
    /\ call.op = "store_new_file"
    /\ ~call.flag
    /\ IsRetract(pre, call.path)
    /\ call.now > RecordIn(pre, call.path).time
    /\ IsAssert(tree, call.path)
    /\ Returned(NoEvent)

\* C4: update_existing_file on a supported path writes Assert(now, fp) and
\* returns no event when the path has a record or the flag is set, whatever
\* was stored; otherwise it returns one "not tracked" event and writes nothing.
C4_Update ==
    (call.op = "update_existing_file" /\ Supported(call.path)) =>
        IF HasRecord(pre, call.path) \/ call.flag
        THEN /\ Returned(NoEvent)
             /\ IsAssert(tree, call.path)
             /\ RecordIn(tree, call.path).time = call.now
             /\ StoredFingerprint(tree, call.path) = call.fingerprint
        ELSE /\ Returned(OneEvent("FileNotTracked", call.path))
             /\ tree = pre
             /\ writes = <<>>

\* a tolerant update created the record of a path that had none
C4_Witness ==
    /\ call.op = "update_existing_file"
    /\ call.flag
    /\ Supported(call.path)
    /\ ~HasRecord(pre, call.path)
    /\ IsAssert(tree, call.path)
    /\ StoredFingerprint(tree, call.path) = call.fingerprint
    /\ Returned(NoEvent)

\* C5: remove_existing_file on a supported path writes Retract(now) and
\* returns no event when the path has a record or the flag is set; otherwise
\* it returns one "not tracked" event and writes nothing.
C5_Remove ==
    (call.op = "remove_existing_file" /\ Supported(call.path)) =>
        IF HasRecord(pre, call.path) \/ call.flag
        THEN /\ Returned(NoEvent)
             /\ IsRetract(tree, call.path)
             /\ RecordIn(tree, call.path).time = call.now
        ELSE /\ Returned(OneEvent("FileNotTracked", call.path))
             /\ tree = pre
             /\ writes = <<>>

\* a strict removal retracted an asserted path at a later time
C5_Witness ==
    /\ call.op = "remove_existing_file"
    /\ ~call.flag
    /\ IsAssert(pre, call.path)
    /\ IsRetract(tree, call.path)
    /\ RecordIn(tree, call.path).time > RecordIn(pre, call.path).time
    /\ Returned(NoEvent)

\* C6: list_fingerprint_assertions returns exactly the paths whose record is
\* an Assert, each once and with the fingerprint of that record; retracted
\* and unseen paths are not returned.
C6_ListIsAsserted ==
    call.op = "list_fingerprint_assertions" =>
        LET asserted == {p \in DOMAIN pre : IsAssert(pre, p)}
            listing == result.listing
        IN  /\ result.status = "Ok"
            /\ {listing[i] : i \in 1..Len(listing)}
                   = {<<p, StoredFingerprint(pre, p)>> : p \in asserted}
            /\ Len(listing) = Cardinality(asserted)

\* two paths have records, the first retracted: only the second is listed
C6_Witness ==
    /\ call.op = "list_fingerprint_assertions"
    /\ IsRetract(pre, PathA)
    /\ IsAssert(pre, PathE)
    /\ result.listing = <<(<<PathE, StoredFingerprint(pre, PathE)>>)>>

\* C7: on a path that is not UTF-8 each of the four file operations returns
\* one "filename unsupported" event carrying the path and leaves the store
\* unchanged, whatever the store and the flag.
C7_Unsupported ==
    (call.op \in FileOps /\ ~Supported(call.path)) =>
        /\ Returned(OneEvent("FileNameNotSupported", call.path))
        /\ tree = pre
        /\ writes = <<>>

\* a tolerant update of an unsupported path, the store holding records
C7_Witness ==
    /\ call.op = "update_existing_file"
    /\ call.flag
    /\ call.path = PathBad
    /\ DOMAIN tree # {}
    /\ Returned(OneEvent("FileNameNotSupported", PathBad))

-----------------------------------------------------------------------------
\* Two calls in a row: in a step of StoreNewFile or Verify the unprimed call,
\* result and pre are those of the call before, the primed ones those of the
\* call the step makes.

\* The step is a tolerant store_new_file that follows a tolerant
\* store_new_file on the same supported path.
TolerantAddTwice ==
    /\ call.op = "store_new_file" /\ call.flag /\ Supported(call.path)
    /\ call'.flag /\ call'.path = call.path
    /\ StoreNewFile

\* C8 as stated: the second of two tolerant store_new_file calls on a
\* supported path, in any store state, returns no event when the two
\* fingerprints are equal and one "content changed" event when they differ.
C8_TolerantAddTwice_AnyState ==
    [][TolerantAddTwice =>
          result' = Ok(IF call'.fingerprint = call.fingerprint
                       THEN NoEvent
                       ELSE OneEvent("FileContentChanged", call.path))]_vars

\* C8 amended: when the first tolerant store_new_file returned no event, the
\* second returns no event for an equal fingerprint and one "content changed"
\* event for a different one; when the first returned "content changed", the
\* record it found is still there and the second returns no event iff its
\* fingerprint equals the stored one, "content changed" otherwise.
C8_TolerantAddTwice ==
    [][TolerantAddTwice =>
          IF result = Ok(NoEvent)
          THEN result' = Ok(IF call'.fingerprint = call.fingerprint
                            THEN NoEvent
                            ELSE OneEvent("FileContentChanged", call.path))
          ELSE /\ result = Ok(OneEvent("FileContentChanged", call.path))
               /\ IsAssert(pre, call.path)
               /\ StoredFingerprint(pre, call.path) # call.fingerprint
               /\ result' = Ok(IF call'.fingerprint
                                     = StoredFingerprint(pre, call.path)
                                THEN NoEvent
                                ELSE OneEvent("FileContentChanged", call.path))
      ]_vars

\* a tolerant add found, unchanged, the Assert written at this clock reading
\* with another modification time, and reported it
C8_Witness ==
    /\ call.op = "store_new_file"
    /\ call.flag
    /\ IsAssert(pre, call.path)
    /\ RecordIn(pre, call.path).time = call.now
    /\ StoredFingerprint(pre, call.path).modified # call.fingerprint.modified
    /\ Returned(OneEvent("FileContentChanged", call.path))
    /\ writes = <<>>

\* C9: the second of two strict store_new_file calls on a supported path, in
\* any store state, returns one "already tracked" event whether or not the
\* fingerprints are equal, and writes nothing.
C9_StrictAddTwice ==
    [][(/\ call.op = "store_new_file" /\ ~call.flag /\ Supported(call.path)
        /\ ~call'.flag /\ call'.path = call.path
        /\ StoreNewFile) =>
          /\ result' = Ok(OneEvent("FileAlreadyTracked", call.path))
          /\ writes' = <<>>
          /\ tree' = tree]_vars

\* a strict add found the very fingerprint it was given and reported the path
C9_Witness ==
    /\ call.op = "store_new_file"
    /\ ~call.flag
    /\ IsAssert(pre, call.path)
    /\ StoredFingerprint(pre, call.path) = call.fingerprint
    /\ RecordIn(pre, call.path).time = call.now
    /\ Returned(OneEvent("FileAlreadyTracked", call.path))
    /\ writes = <<>>

\* C10: store_new_file on a supported path that had no Assert record,
\* followed at once by verify of the same path with the same fingerprint:
\* neither call returns an event, strict or tolerant.
C10_AddThenVerify ==
    [][(/\ call.op = "store_new_file" /\ Supported(call.path)
        /\ ~IsAssert(pre, call.path)
        /\ call'.path = call.path
        /\ call'.fingerprint = call.fingerprint
        /\ Verify) =>
          /\ result = Ok(NoEvent)
          /\ result' = Ok(NoEvent)]_vars

\* verify found the Assert written at this clock reading, unix mode absent,
\* equal to the fingerprint it was given
C10_Witness ==
    /\ call.op = "verify"
    /\ IsAssert(pre, call.path)
    /\ RecordIn(pre, call.path).time = call.now
    /\ call.fingerprint = FpMode
    /\ StoredFingerprint(pre, call.path) = call.fingerprint
    /\ Returned(NoEvent)

-----------------------------------------------------------------------------
\* C11: store_new_file on a supported path that had no Assert record,
\* followed at once by verify of the same path with a fingerprint that
\* differs in some field: the add returns no event and verify returns exactly
\* one "content changed" event carrying the path.
C11_AddThenVerifyChanged ==
    [][(/\ call.op = "store_new_file" /\ Supported(call.path)
        /\ ~IsAssert(pre, call.path)
        /\ call'.path = call.path
        /\ call'.fingerprint # call.fingerprint
        /\ Verify) =>
          /\ result = Ok(NoEvent)
          /\ result' = Ok(OneEvent("FileContentChanged", call.path))]_vars

\* verify found the Assert written at this clock reading and reported a file
\* of which only the modification time had changed
C11_Witness ==
    /\ call.op = "verify"
    /\ IsAssert(pre, call.path)
    /\ RecordIn(pre, call.path).time = call.now
    /\ StoredFingerprint(pre, call.path) = FpBase
    /\ call.fingerprint = FpModified
    /\ Returned(OneEvent("FileContentChanged", call.path))

\* C12: remove_existing_file on a supported path, in any store state and with
\* either flag, followed at once by verify of that path with any fingerprint:
\* verify returns exactly one "not tracked" event.
C12_RemoveThenVerify ==
    [][(/\ call.op = "remove_existing_file" /\ Supported(call.path)
        /\ call'.path = call.path
        /\ Verify) =>
          result' = Ok(OneEvent("FileNotTracked", call.path))]_vars

\* verify found the Retract written at this clock reading
C12_Witness ==
    /\ call.op = "verify"
    /\ IsRetract(pre, call.path)
    /\ RecordIn(pre, call.path).time = call.now
    /\ Returned(OneEvent("FileNotTracked", call.path))

\* C13: verify leaves every record as it was and makes no insert, so a
\* verify repeated at once with the same path and fingerprint returns what
\* the first returned; no event both times when the stored fingerprint is
\* the one supplied.
C13_VerifyReadOnly ==
    [][/\ (call'.op = "verify" /\ Verify) => (tree' = tree /\ writes' = <<>>)
       /\ (/\ call.op = "verify"
            /\ call'.path = call.path
            /\ call'.fingerprint = call.fingerprint
            /\ Verify) =>
              /\ result' = result
              /\ (IsAssert(tree, call.path)
                    /\ StoredFingerprint(tree, call.path) = call.fingerprint) =>
                      (result = Ok(NoEvent) /\ result' = Ok(NoEvent))]_vars

\* verify reported a changed file and the record is still the one it found
C13_Witness ==
    /\ call.op = "verify"
    /\ IsAssert(pre, call.path)
    /\ StoredFingerprint(pre, call.path) # call.fingerprint
    /\ Returned(OneEvent("FileContentChanged", call.path))
    /\ tree = pre
    /\ StoredFingerprint(tree, call.path) = StoredFingerprint(pre, call.path)

\* C14 as stated: a path without a record gets one only by a store_new_file
\* on that path; update_existing_file, remove_existing_file and verify never
\* create one, whatever their flag.
C14_CreatedOnlyByAdd ==
    [][\A p \in Paths :
          (~HasRecord(tree, p) /\ HasRecord(tree', p)) =>
              (call'.op = "store_new_file" /\ call'.path = p)]_vars

\* C14 amended: a path without a record gets one only by a store_new_file on
\* that path, or by an update_existing_file or remove_existing_file on that
\* path with tolerate_untracked set; verify, the listing and the two
\* without the flag never create one.
C14_CreatedByAddOrTolerant ==
    [][\A p \in Paths :
          (~HasRecord(tree, p) /\ HasRecord(tree', p)) =>
              /\ call'.path = p
              /\ \/ call'.op = "store_new_file"
                 \/ /\ call'.op \in {"update_existing_file",
                                      "remove_existing_file"}
                    /\ call'.flag]_vars

\* a tolerant removal created a Retract for a path never seen
C14_Witness ==
    /\ call.op = "remove_existing_file"
    /\ call.flag
    /\ Supported(call.path)
    /\ ~HasRecord(pre, call.path)
    /\ IsRetract(tree, call.path)

\* C15: a path that has a record keeps having one, an Assert or a Retract,
\* through every operation: the set of keys only grows.
C15_NeverDeleted ==
    [][\A p \in DOMAIN tree :
          /\ HasRecord(tree', p)
          /\ IsAssert(tree', p) \/ IsRetract(tree', p)]_vars

\* a removal left both paths with a record, its own path retracted
C15_Witness ==
    /\ call.op = "remove_existing_file"
    /\ DOMAIN pre = {PathA, PathE}
    /\ DOMAIN tree = {PathA, PathE}
    /\ IsAssert(pre, call.path)
    /\ IsRetract(tree, call.path)

-----------------------------------------------------------------------------
\* The bytes stored for the path are not a record.
Undecodable(t, path) == HasRecord(t, path) /\ ~from_slice(t[path]).ok

DecodeFailed ==
    /\ result = Err("FingerprintDeserializationError")
    /\ tree = pre
    /\ writes = <<>>

\* C16 as stated: when the bytes stored for a path are not a record, each of
\* store_new_file, update_existing_file, remove_existing_file and verify on
\* that path, and the listing, fails with the decode error, returns no event
\* and leaves the bytes as they were.
C16_DecodeErrorInEveryOperation ==
    /\ (call.op \in FileOps /\ Undecodable(pre, call.path)) => DecodeFailed
    /\ (call.op = "list_fingerprint_assertions"
          /\ \E p \in DOMAIN pre : Undecodable(pre, p)) => DecodeFailed

\* C16 amended: store_new_file and verify on that path, and the listing, fail
\* with the decode error, return no event and leave the bytes as they were;
\* update_existing_file and remove_existing_file do not decode the stored
\* bytes: they return no event and replace them by Assert(now, fp) and
\* Retract(now).
C16_DecodeErrorWhereDecoded ==
    /\ (call.op \in {"store_new_file", "verify"}
          /\ Undecodable(pre, call.path)) => DecodeFailed
    /\ (call.op = "list_fingerprint_assertions"
          /\ \E p \in DOMAIN pre : Undecodable(pre, p)) => DecodeFailed
    /\ (call.op = "update_existing_file" /\ Undecodable(pre, call.path)) =>
          /\ Returned(NoEvent)
          /\ IsAssert(tree, call.path)
          /\ RecordIn(tree, call.path).time = call.now
          /\ StoredFingerprint(tree, call.path) = call.fingerprint
    /\ (call.op = "remove_existing_file" /\ Undecodable(pre, call.path)) =>
          /\ Returned(NoEvent)
          /\ IsRetract(tree, call.path)
          /\ RecordIn(tree, call.path).time = call.now

\* the listing failed on a tree whose first item decodes and whose second
\* does not
C16_Witness ==
    /\ call.op = "list_fingerprint_assertions"
    /\ IsAssert(pre, PathA)
    /\ Undecodable(pre, PathE)
    /\ DecodeFailed

-----------------------------------------------------------------------------
\* Claims about a run of the command line

BatchCommands == {"add", "remove", "verify", "accept"}

Completed == run.pc = "exited" /\ run.fatal = "none"

EndsInDirectory(path) == Last(symlink_reference_chain(path)) = PathDir

RECURSIVE Chains(_)
Chains(paths) ==
    IF paths = <<>> THEN <<>>
    ELSE symlink_reference_chain(Head(paths)) \o Chains(Tail(paths))

\* the chains of the inputs that end in a directory, and of the others
DirectoryChains(input) == Chains(SelectSeq(input, EndsInDirectory))

FileChains(input) ==
    Chains(SelectSeq(input, LAMBDA p : ~EndsInDirectory(p)))

IsDirectoryEvent(item) == item.kind = "FileIsDirectory"

EventPaths(items) == [i \in 1..Len(items) |-> items[i].path]

CallPaths(calls) == [i \in 1..Len(calls) |-> calls[i].path]

RECURSIVE ApplyWrites(_, _)
ApplyWrites(t, ws) ==
    IF ws = <<>> THEN t
    ELSE ApplyWrites(tree_insert(t, Head(ws).key, Head(ws).value), Tail(ws))

\* the files of the loop the run has passed
Passed(all) == SubSeq(all, 1, Len(all) - Len(run.files))

Distinct(seq) == \A i, j \in 1..Len(seq) : seq[i] = seq[j] => i = j

TrackedPaths(t) == {p \in DOMAIN t : IsAssert(t, p)}

\* C17: the exit status of a run that completes tells a run with report
\* events from a run with none: a run that printed no event leaves with the
\* success status, a run that printed at least one with another status.
C17_ExitStatusReflectsReports ==
    (Completed /\ run.cmd \in BatchCommands \cup {"verify_all"}) =>
        (run.exit = ExitSuccess <=> run.sink = <<>>)

C19_BatchFailFast ==
    (run.cmd \in {"add", "verify", "accept"}) =>
        /\ \A i \in 1..Len(Passed(FileChains(run.input))) :
               LET file == canonicalize(fs, FileChains(run.input)[i])
               IN  IsSome(file) /\ IsSome(from_file(fs, Unwrap(file)))
        /\ Completed => run.files = <<>>
        /\ run.fatal = "Fingerprint::from_file" =>
               /\ run.pc = "exited"
               /\ run.exit = ExitPanic
               /\ run.files # <<>>
               /\ ~IsSome(from_file(fs, Unwrap(canonicalize(fs, Head(run.files)))))
               /\ Len(run.calls) = Len(Passed(FileChains(run.input)))
               /\ tree = ApplyWrites(run.tree0, run.written)
               /\ run.sink = <<>>

\* add of "/s /e", /e not readable: /a is inserted for /s, the second add
\* of /a gives an event, the run aborts at /e and prints nothing
C19_Witness ==
    /\ run.fatal = "Fingerprint::from_file"
    /\ run.cmd = "add"
    /\ run.input = <<PathLinkA, PathE>>
    /\ run.files = <<PathE>>
    /\ Len(run.written) = 1
    /\ ~HasRecord(run.tree0, PathA)
    /\ IsAssert(tree, PathA)
    /\ Len(run.reports) = 1
    /\ run.sink = <<>>

\* C20: verify_all calls verify on tracked paths only, on none twice, and when
\* it completes on each of them; every event is 'content changed', there is at
\* most one for a path, and the tree is the one the run started with.
C20_VerifyAllTracked ==
    (run.cmd = "verify_all") =>
        LET verified == CallPaths(Tail(run.calls))
        IN  /\ Head(run.calls).op = "list_fingerprint_assertions"
            /\ \A i \in 1..Len(verified) :
                   /\ run.calls[i + 1].op = "verify"
                   /\ IsAssert(tree, verified[i])
            /\ Distinct(verified)
            /\ Completed =>
                   {verified[i] : i \in 1..Len(verified)} = TrackedPaths(tree)
            /\ \A i \in 1..Len(run.reports) :
                   /\ run.reports[i].kind = "FileContentChanged"
                   /\ run.reports[i].path \in TrackedPaths(tree)
            /\ Distinct(EventPaths(run.reports))
            /\ tree = run.tree0
            /\ run.written = <<>>

\* /a tracked and changed, /e retracted: one verify, one event
C20_Witness ==
    /\ Completed
    /\ run.cmd = "verify_all"
    /\ IsAssert(tree, PathA)
    /\ IsRetract(tree, PathE)
    /\ CallPaths(Tail(run.calls)) = <<PathA>>
    /\ run.sink = <<ReportItem("FileContentChanged", PathA)>>

-----------------------------------------------------------------------------
\* Claims about what one call touches

\* the bytes stored under the key of q, or nothing
Stored(t, q) == IF q \in DOMAIN t THEN <<t[q]>> ELSE <<>>

OtherPaths(p) == (DOMAIN pre \cup DOMAIN tree \cup Paths) \ {p}

\* C21: a call of store_new_file, update_existing_file, remove_existing_file
\* or verify on path p makes at most one insert, under the key of p; a call
\* that makes none leaves what is stored for p; and what is stored, or not
\* stored, for every other path is after the call what it was before.
C21_PerPathIndependence ==
    (call.op \in FileOps) =>
        /\ Len(writes) <= 1
        /\ \A i \in 1..Len(writes) :
               /\ Some(writes[i].key) = path_as_key(call.path)
               /\ Stored(tree, call.path) = <<writes[i].value>>
        /\ writes = <<>> => Stored(tree, call.path) = Stored(pre, call.path)
        /\ \A q \in OtherPaths(call.path) : Stored(tree, q) = Stored(pre, q)

\* an update replaced the record of /a while /e kept its own
C21_Witness ==
    /\ call.op = "update_existing_file"
    /\ call.path = PathA
    /\ HasRecord(pre, PathA)
    /\ HasRecord(pre, PathE)
    /\ Len(writes) = 1
    /\ Stored(tree, PathA) # Stored(pre, PathA)
    /\ Stored(tree, PathE) = Stored(pre, PathE)

\* C22: a call of store_new_file, update_existing_file, remove_existing_file
\* or verify that returns Ok returns at most one event; when it returns one
\* it made no insert and the tree is as before; when it made an insert or
\* changed the tree it returns none.
C22_ReportOrWrite ==
    (call.op \in FileOps /\ result.status = "Ok") =>
        /\ Len(result.reports) <= 1
        /\ result.reports # <<>> => (writes = <<>> /\ tree = pre)
        /\ (writes # <<>> \/ tree # pre) => result.reports = <<>>

\* a strict removal of an untracked path reported it and left the tracked
\* path alone
C22_Witness ==
    /\ call.op = "remove_existing_file"
    /\ ~call.flag
    /\ call.path = PathE
    /\ ~HasRecord(pre, PathE)
    /\ IsAssert(pre, PathA)
    /\ Returned(OneEvent("FileNotTracked", PathE))
    /\ writes = <<>>
    /\ tree = pre

====
